---- MODULE Spec2Model ----
(***************************************************************************)
(* A model of cert-manage's darwin trust store (List, Backup, Remove,      *)
(* Restore), of its trust-settings plist codec and of certs.Keep.          *)
(***************************************************************************)
EXTENDS Integers, Sequences, FiniteSets, TLC

\* ------------------------------------------------------------------ bounds
MaxRecords == 2    \* records of a snapshot handed to the codec
MaxIncoming == 3   \* certificates handed to Keep
MaxWhitelist == 2  \* whitelist items handed to Keep
MaxSteps == 3      \* store operations in one behaviour
MaxTicks == 1      \* seconds the clock advances in one behaviour
StartClock == 9    \* the Unix time at which a behaviour starts
MaxParsed == 2     \* records of a document handed to the parser
MaxCAs == 2        \* CA names on the fetcher's command line

\* ------------------------------------------------------------ sequences
RECURSIVE SeqsUpTo(_, _)
SeqsUpTo(S, n) ==
  IF n = 0 THEN {<<>>}
  ELSE LET shorter == SeqsUpTo(S, n - 1)
       IN shorter \cup {Append(s, x) : s \in {t \in shorter : Len(t) = n - 1}, x \in S}

Range(s) == {s[i] : i \in 1..Len(s)}

NoDup(s) == \A i, j \in 1..Len(s) : i # j => s[i] # s[j]

RECURSIVE Concat(_)
Concat(ss) == IF ss = <<>> THEN <<>> ELSE Head(ss) \o Concat(Tail(ss))

\* ------------------------------------------------------------------ text
\* strings.ToUpper / strings.ToLower over the characters of a hex digest
UpperCh(c) ==
  CASE c = "a" -> "A" [] c = "b" -> "B" [] c = "c" -> "C"
    [] c = "d" -> "D" [] c = "e" -> "E" [] c = "f" -> "F" [] OTHER -> c

LowerCh(c) ==
  CASE c = "A" -> "a" [] c = "B" -> "b" [] c = "C" -> "c"
    [] c = "D" -> "d" [] c = "E" -> "e" [] c = "F" -> "f" [] OTHER -> c

ToUpper(s) == [i \in 1..Len(s) |-> UpperCh(s[i])]
ToLower(s) == [i \in 1..Len(s) |-> LowerCh(s[i])]

\* A base64 text is a sequence of symbols: 0..63 are the alphabet's sextets,
\* PadSym is '=', WsSym is any character outside the alphabet (newline, tab).
PadSym == 64
WsSym == 65

RECURSIVE EncodeToString(_)
EncodeToString(bs) ==
  IF bs = <<>> THEN <<>>
  ELSE IF Len(bs) = 1
    THEN <<bs[1] \div 4, (bs[1] % 4) * 16, PadSym, PadSym>>
  ELSE IF Len(bs) = 2
    THEN <<bs[1] \div 4, (bs[1] % 4) * 16 + bs[2] \div 16, (bs[2] % 16) * 4, PadSym>>
  ELSE <<bs[1] \div 4, (bs[1] % 4) * 16 + bs[2] \div 16,
         (bs[2] % 16) * 4 + bs[3] \div 64, bs[3] % 64>>
       \o EncodeToString(SubSeq(bs, 4, Len(bs)))

\* base64.StdEncoding.DecodeString with its error dropped: the bytes decoded
\* before the first malformed quantum.
RECURSIVE DecodeString(_)
DecodeString(t) ==
  IF Len(t) < 4 THEN <<>>
  ELSE LET a == t[1]  b == t[2]  c == t[3]  d == t[4]
           rest == SubSeq(t, 5, Len(t))
       IN IF a >= PadSym \/ b >= PadSym THEN <<>>
          ELSE IF c = PadSym
            THEN IF d = PadSym /\ rest = <<>>
                   THEN <<a * 4 + b \div 16>> ELSE <<>>
          ELSE IF d = PadSym
            THEN IF rest = <<>>
                   THEN <<a * 4 + b \div 16, (b % 16) * 16 + c \div 4>> ELSE <<>>
          ELSE <<a * 4 + b \div 16, (b % 16) * 16 + c \div 4, (c % 4) * 64 + d>>
               \o DecodeString(rest)

\* regexp [^a-zA-Z0-9\+\/=]* replaced by "", then the whitespace replacer
RECURSIVE StripNonBase64(_)
StripNonBase64(t) ==
  IF t = <<>> THEN <<>>
  ELSE IF Head(t) > PadSym THEN StripNonBase64(Tail(t))
  ELSE <<Head(t)>> \o StripNonBase64(Tail(t))

\* --------------------------------------------------------- distinguished names
\* An attribute is [t |-> type, v |-> value]; an RDNSequence is a sequence of
\* RDNs, each a sequence of attributes. A pkix.Name keeps the attribute types
\* it knows in fields and every attribute it was filled from in Names.
TypeCode(t) == CASE t = "CN" -> 3 [] t = "O" -> 10 [] OTHER -> 9
CodeType(n) == CASE n = 3 -> "CN" [] n = 10 -> "O" [] OTHER -> "E"
ValCode(v) == CASE v = "x" -> 120 [] v = "r1" -> 1 [] v = "r2" -> 2
                [] v = "r3" -> 3 [] OTHER -> 109
CodeVal(n) == CASE n = 120 -> "x" [] n = 1 -> "r1" [] n = 2 -> "r2"
                [] n = 3 -> "r3" [] OTHER -> "m"

EmptyName == [Organization |-> <<>>, CommonName |-> "", Names |-> <<>>]

RECURSIVE FillAttrs(_, _)
FillAttrs(name, attrs) ==
  IF attrs = <<>> THEN name
  ELSE LET a == Head(attrs)
           n1 == [name EXCEPT !.Names = Append(@, a)]
           n2 == IF a.t = "O" THEN [n1 EXCEPT !.Organization = Append(@, a.v)]
                 ELSE IF a.t = "CN" THEN [n1 EXCEPT !.CommonName = a.v]
                 ELSE n1
       IN FillAttrs(n2, Tail(attrs))

FillFromRDNSequence(rdns) == FillAttrs(EmptyName, Concat(rdns))

ToRDNSequence(name) ==
  (IF name.Organization = <<>> THEN <<>>
   ELSE <<[i \in 1..Len(name.Organization) |->
            [t |-> "O", v |-> name.Organization[i]]]>>)
  \o (IF name.CommonName = "" THEN <<>>
      ELSE <<<<[t |-> "CN", v |-> name.CommonName]>>>>)

\* asn1.Marshal of an RDNSequence: SEQUENCE tag and count, then per RDN a SET
\* tag and count, then per attribute its type and value.
SeqTag == 48
SetTag == 49

MarshalRDN(rdn) ==
  <<SetTag, Len(rdn)>>
  \o Concat([i \in 1..Len(rdn) |-> <<TypeCode(rdn[i].t), ValCode(rdn[i].v)>>])

Marshal(rdns) ==
  <<SeqTag, Len(rdns)>> \o Concat([i \in 1..Len(rdns) |-> MarshalRDN(rdns[i])])

\* asn1.Unmarshal into an RDNSequence: [ok, rdns]
RECURSIVE ParseRDNs(_, _)
ParseRDNs(bs, n) ==
  IF n = 0 THEN [ok |-> bs = <<>>, rdns |-> <<>>]
  ELSE IF Len(bs) < 2 \/ bs[1] # SetTag \/ Len(bs) < 2 + 2 * bs[2]
    THEN [ok |-> FALSE, rdns |-> <<>>]
  ELSE LET k == bs[2]
           rdn == [i \in 1..k |->
                    [t |-> CodeType(bs[2 * i + 1]), v |-> CodeVal(bs[2 * i + 2])]]
           more == ParseRDNs(SubSeq(bs, 3 + 2 * k, Len(bs)), n - 1)
       IN [ok |-> more.ok, rdns |-> <<rdn>> \o more.rdns]

Unmarshal(bs) ==
  IF Len(bs) < 2 \/ bs[1] # SeqTag THEN [ok |-> FALSE, rdns |-> <<>>]
  ELSE ParseRDNs(SubSeq(bs, 3, Len(bs)), bs[2])

\* ------------------------------------------------------------------ time
\* A time.Time is an instant (sec, nsec) and the zone offset it is shown in.
\* plistModDateFormat "2006-01-02T15:04:05Z" has no zone verb: the trailing Z
\* is a literal, so Format prints the wall clock of the Time's own zone, to
\* the second, and ParseInLocation(.., time.UTC) reads a wall clock as UTC.
ZeroTime == [sec |-> 0, nsec |-> 0, off |-> 0]

FormatModDate(t) == t.sec + t.off

ParseModDate(text) ==
  IF text < 0 THEN [ok |-> FALSE, t |-> ZeroTime]
  ELSE [ok |-> TRUE, t |-> [sec |-> text, nsec |-> 0, off |-> 0]]

\* ---------------------------------------------------------------- certificates
Nil == "nil"

\* big.Int.Bytes(): big-endian magnitude, no leading zero byte
RECURSIVE IntBytes(_)
IntBytes(n) == IF n = 0 THEN <<>> ELSE IntBytes(n \div 256) \o <<n % 256>>

CertIds == {"c1", "c2", "c3"}

\* The parsed x509.Certificate behind an id. c3 carries c1's signature bytes.
Cert(id) ==
  CASE id = "c1" -> [fp |-> <<"a", "1">>, sig |-> "s1", serial |-> 1,
                     rdns |-> <<<<[t |-> "O", v |-> "x"]>>, <<[t |-> "CN", v |-> "r1"]>>>>]
    [] id = "c2" -> [fp |-> <<"b", "2">>, sig |-> "s2", serial |-> 300,
                     rdns |-> <<<<[t |-> "O", v |-> "x"]>>, <<[t |-> "CN", v |-> "r2"]>>,
                                <<[t |-> "E", v |-> "m"]>>>>]
    [] OTHER     -> [fp |-> <<"c", "3">>, sig |-> "s1", serial |-> 0,
                     rdns |-> <<<<[t |-> "CN", v |-> "r3"]>>>>]

Issuer(id) == FillFromRDNSequence(Cert(id).rdns)

GetHexSHA1Fingerprint(id) == Cert(id).fp

\* ------------------------------------------------------------- trust items
\* trustItem: sha1Fingerprint, issuerName, modDate, serialNumber
Now(clock, zone) == [sec |-> clock, nsec |-> 1, off |-> zone]

trustItemFromCertificate(id, clock, zone) ==
  [sha1Fingerprint |-> GetHexSHA1Fingerprint(id),
   issuerName      |-> Issuer(id),
   modDate         |-> Now(clock, zone),
   serialNumber    |-> IntBytes(Cert(id).serial)]

\* --------------------------------------------------------------- documents
\* A file holds the children of its <plist> element, each element being
\* [tag, text, kids].
Elem(tag, text, kids) == [tag |-> tag, text |-> text, kids |-> kids]
Leaf(tag, text) == Elem(tag, text, <<>>)

\* the per-record fragment of toXmlFile
XmlItem(item) ==
  <<Leaf("key", ToUpper(item.sha1Fingerprint)),
    Elem("dict", <<>>,
      <<Leaf("key", <<"issuerName">>),
        Leaf("data", EncodeToString(Marshal(ToRDNSequence(item.issuerName)))),
        Leaf("key", <<"modDate">>),
        Leaf("date", FormatModDate(item.modDate)),
        Leaf("key", <<"serialNumber">>),
        Leaf("data", EncodeToString(item.serialNumber))>>)>>

\* header, the records in order, footer
toXmlFile(items) ==
  <<Elem("dict", <<>>,
      <<Leaf("key", <<"trustList">>),
        Elem("dict", <<>>, Concat([i \in 1..Len(items) |-> XmlItem(items[i])])),
        Leaf("key", <<"trustVersion">>),
        Leaf("integer", <<"1">>)>>)>>

\* encoding/xml decoding into the plist/dict structs: a nil *dict is allocated
\* at the first <dict> child and reused by every later one, so the slices of
\* sibling dicts run together.
NilDict == [isNil |-> TRUE]
NewDict == [isNil |-> FALSE, ChiData |-> <<>>, ChiDate |-> <<>>,
            ChiKey |-> <<>>, ChiDict |-> NilDict]

RECURSIVE DecodeInto(_, _)
DecodeInto(d, kids) ==
  IF kids = <<>> THEN d
  ELSE LET k == Head(kids)
           d1 == CASE k.tag = "data" -> [d EXCEPT !.ChiData = Append(@, k.text)]
                   [] k.tag = "date" -> [d EXCEPT !.ChiDate = Append(@, k.text)]
                   [] k.tag = "key"  -> [d EXCEPT !.ChiKey = Append(@, k.text)]
                   [] k.tag = "dict" ->
                        [d EXCEPT !.ChiDict =
                           DecodeInto(IF @.isNil THEN NewDict ELSE @, k.kids)]
                   [] OTHER -> d
       IN DecodeInto(d1, Tail(kids))

\* parsePlist: the plist struct is its ChiDict
parsePlist(file) ==
  LET top == DecodeInto([NewDict EXCEPT !.isNil = FALSE], file)
  IN top.ChiDict

\* ConvertItem without strings.ToLower on the key
ConvertItemKeepsCase(keys, datas, dates, i) ==
  LET bs1 == DecodeString(StripNonBase64(datas[2 * i - 1]))
      bs2 == DecodeString(StripNonBase64(datas[2 * i]))
      issuer == Unmarshal(bs1)
      t == ParseModDate(dates[i])
  IN [sha1Fingerprint |-> keys[i],
      issuerName      |-> IF issuer.ok THEN FillFromRDNSequence(issuer.rdns)
                          ELSE EmptyName,
      modDate         |-> IF t.ok THEN t.t ELSE ZeroTime,
      serialNumber    |-> bs2]

\* One record of convertToTrustItems, from the i-th key and date and the
\* data entries 2i-1 and 2i (1-based).
ConvertItem(keys, datas, dates, i) ==
  LET bs1 == DecodeString(StripNonBase64(datas[2 * i - 1]))
      bs2 == DecodeString(StripNonBase64(datas[2 * i]))
      issuer == Unmarshal(bs1)
      t == ParseModDate(dates[i])
  IN [sha1Fingerprint |-> ToLower(keys[i]),
      issuerName      |-> IF issuer.ok THEN FillFromRDNSequence(issuer.rdns)
                          ELSE EmptyName,
      modDate         |-> IF t.ok THEN t.t ELSE ZeroTime,
      serialNumber    |-> bs2]

\* convertToTrustItems: [panic, items]. It dereferences three dict levels
\* and indexes ChiKey, ChiData and ChiDate without a check.
convertToTrustItems(p) ==
  IF p.isNil \/ p.ChiDict.isNil \/ p.ChiDict.ChiDict.isNil
    THEN [panic |-> TRUE, items |-> <<>>]
  ELSE LET keys == p.ChiDict.ChiKey
           datas == p.ChiDict.ChiDict.ChiData
           dates == p.ChiDict.ChiDict.ChiDate
           n == (Len(datas) + 1) \div 2
       IN IF Len(datas) % 2 = 1 \/ Len(keys) < n \/ Len(dates) < n
            THEN [panic |-> TRUE, items |-> <<>>]
          ELSE [panic |-> FALSE,
                items |-> [i \in 1..n |-> ConvertItem(keys, datas, dates, i)]]

\* ------------------------------------------------------ /usr/bin/security
\* The system trust settings are a sequence of records
\* [key, issuer, date, serial]: the digest as the tool prints it, the DER
\* issuer name, the modification date text and the serial number bytes.
Pretty(text) ==
  IF Len(text) <= 4 THEN <<WsSym>> \o text \o <<WsSym>>
  ELSE <<WsSym>> \o SubSeq(text, 1, 4) \o <<WsSym>>
       \o SubSeq(text, 5, Len(text)) \o <<WsSym>>

ExportItem(r) ==
  <<Leaf("key", r.key),
    Elem("dict", <<>>,
      <<Leaf("key", <<"issuerName">>),
        Leaf("data", Pretty(EncodeToString(r.issuer))),
        Leaf("key", <<"modDate">>),
        Leaf("date", r.date),
        Leaf("key", <<"serialNumber">>),
        Leaf("data", Pretty(EncodeToString(r.serial)))>>)>>

\* security trust-settings-export -d <file>
TrustSettingsExport(pol) ==
  <<Elem("dict", <<>>,
      <<Leaf("key", <<"trustList">>),
        Elem("dict", <<>>, Concat([i \in 1..Len(pol) |-> ExportItem(pol[i])])),
        Leaf("key", <<"trustVersion">>),
        Leaf("integer", <<"1">>)>>)>>

\* the value that follows the key `label` among the children `kids`
RECURSIVE ValueOf(_, _)
ValueOf(kids, label) ==
  IF Len(kids) < 2 THEN Leaf("none", <<>>)
  ELSE IF kids[1].tag = "key" /\ kids[1].text = label THEN kids[2]
  ELSE ValueOf(Tail(kids), label)

RECURSIVE ImportItems(_)
ImportItems(kids) ==
  IF Len(kids) < 2 THEN <<>>
  ELSE LET d == kids[2].kids
       IN <<[key    |-> kids[1].text,
             issuer |-> DecodeString(StripNonBase64(ValueOf(d, <<"issuerName">>).text)),
             date   |-> ValueOf(d, <<"modDate">>).text,
             serial |-> DecodeString(StripNonBase64(ValueOf(d, <<"serialNumber">>).text))]>>
          \o ImportItems(SubSeq(kids, 3, Len(kids)))

\* sudo security trust-settings-import -d <file>: the settings after it
TrustSettingsImport(file) ==
  IF file = <<>> THEN <<>>
  ELSE ImportItems(ValueOf(file[1].kids, <<"trustList">>).kids)

\* the record the tool holds for a trusted certificate
PolicyRecord(id, date) ==
  [key    |-> ToUpper(Cert(id).fp),
   issuer |-> Marshal(Cert(id).rdns),
   date   |-> date,
   serial |-> IntBytes(Cert(id).serial)]

\* ------------------------------------------------------------- whitelist
\* A whitelist item recognises certificates by their signature or by their
\* issuer's common name.
WhitelistItems ==
  {[kind |-> "Signature", v |-> "s1"],
   [kind |-> "IssuerCommonName", v |-> "r1"],
   [kind |-> "IssuerCommonName", v |-> "r2"],
   [kind |-> "IssuerCommonName", v |-> "r9"]}

\* WhitelistItem.Matches(cert)
ItemMatches(wh, id) ==
  IF wh.kind = "Signature" THEN Cert(id).sig = wh.v
  ELSE Issuer(id).CommonName = wh.v

\* whitelist.Whitelist.Matches(cert): some item matches
WhitelistMatches(wl, id) == \E j \in 1..Len(wl) : ItemMatches(wl[j], id)

\* Keep that tests each certificate against the first item only
KeepFirstItemOnly(incoming, whitelisted) ==
  Concat([i \in 1..Len(incoming) |->
    IF whitelisted # <<>> /\ incoming[i] # Nil /\ ItemMatches(whitelisted[1], incoming[i])
      THEN <<incoming[i]>> ELSE <<>>])

\* Keep with one index for both loops: certificate i against item i only
KeepPairwise(incoming, whitelisted) ==
  Concat([i \in 1..Len(incoming) |->
    IF i <= Len(whitelisted) /\ incoming[i] # Nil /\ ItemMatches(whitelisted[i], incoming[i])
      THEN <<incoming[i]>> ELSE <<>>])

\* certs.Keep: one append per (certificate, matching item) pair
Keep(incoming, whitelisted) ==
  Concat([i \in 1..Len(incoming) |->
    Concat([j \in 1..Len(whitelisted) |->
      IF incoming[i] # Nil /\ ItemMatches(whitelisted[j], incoming[i])
        THEN <<incoming[i]>> ELSE <<>>])])

\* ------------------------------------------------------------------ state
VARIABLES
  keychain,   \* what pem.Parse makes of `security find-certificate -a -p`
  zone,       \* the offset of the machine's local time zone
  policy,     \* the system trust settings
  dirExists,  \* whether ~/Library/cert-manage exists
  backups,    \* the files of that directory: timestamp of the name -> content
  temps,      \* the names of the files in the temporary directory
  now,        \* the clock, in Unix seconds
  steps,      \* store operations so far
  last,       \* what the last store operation did and returned
  scen,       \* progress of a Backup, Remove, Restore("") sequence
  input,      \* the argument of a library call (Keep, the codec)
  output      \* its result

vars == <<keychain, zone, policy, dirExists, backups, temps, now, steps, last,
          scen, input, output>>

storeVars == <<keychain, zone, policy, dirExists, backups, temps, now, steps,
               last, scen>>

ZoneOffsets == {0, 2}
Clocks == StartClock..(StartClock + 1 + MaxTicks)

NoOp == [op |-> "none"]
NoScen == [phase |-> 0, file |-> [kind |-> "empty", n |-> 0], listed |-> {}]

\* the store before its first operation, with nothing installed
StoreIdle ==
  /\ keychain = <<>> /\ zone = 0 /\ policy = <<>> /\ dirExists = FALSE
  /\ backups = <<>> /\ temps = {} /\ now = StartClock /\ steps = 0
  /\ last = NoOp /\ scen = NoScen
\* ------------------------------------------------------------- the files
\* fmt.Sprintf("trust-backup-%d.xml", ts): the characters of the name that
\* differ between backups, each by its rank in byte order ('.' below '0').
RECURSIVE Digits(_)
Digits(n) == IF n < 10 THEN <<n + 1>> ELSE Digits(n \div 10) \o <<(n % 10) + 1>>

BackupFileName(ts) == Digits(ts) \o <<0>>

RECURSIVE LexLess(_, _)
LexLess(a, b) ==
  IF b = <<>> THEN FALSE
  ELSE IF a = <<>> THEN TRUE
  ELSE IF Head(a) # Head(b) THEN Head(a) < Head(b)
  ELSE LexLess(Tail(a), Tail(b))

\* file.SortFileInfos(fis); fis[len(fis)-1]: the last name in lexical order
LastSorted(names) ==
  CHOOSE ts \in names :
    \A o \in names \ {ts} : LexLess(BackupFileName(o), BackupFileName(ts))

\* ioutil.TempFile: a name no file of the temporary directory has
Fresh(names) == CHOOSE n \in 1..(Cardinality(names) + 1) : n \notin names

EmptyPath == [kind |-> "empty", n |-> 0]
BackupPath(ts) == [kind |-> "backup", n |-> ts]
TempPath(n) == [kind |-> "temp", n |-> n]
OtherPath == [kind |-> "other", n |-> 0]

BackupNames(files) == {b.ts : b \in files}

\* file.Exists(path)
Exists(path, dir, files, tmp) ==
  CASE path.kind = "backup" -> dir /\ path.n \in BackupNames(files)
    [] path.kind = "temp"   -> path.n \in tmp
    [] OTHER                -> FALSE

BackupFile(files, ts) == (CHOOSE b \in files : b.ts = ts).file

\* file.CopyFile(src, dst): dst is created, or truncated and rewritten
CopyFile(files, ts, content) ==
  {b \in files : b.ts # ts} \cup {[ts |-> ts, file |-> content]}

\* ----------------------------------------------------------- the operations
\* Each procedure returns what the Go function returns together with the
\* files and settings it leaves behind. `fault` names the one external step
\* that fails in this call ("none": nothing fails).

\* trustSettingsExport: [fd, failed, file, tmp, created]
trustSettingsExport(pol, tmp, fault) ==
  IF fault = "tempfile"
    THEN [fd |-> 0, failed |-> TRUE, file |-> <<>>, tmp |-> tmp, created |-> {}]
  ELSE LET name == Fresh(tmp)
       IN IF fault = "export"
            THEN [fd |-> 0, failed |-> TRUE, file |-> <<>>,
                  tmp |-> tmp \cup {name}, created |-> {name}]
          ELSE [fd |-> name, failed |-> FALSE, file |-> TrustSettingsExport(pol),
                tmp |-> tmp \cup {name}, created |-> {name}]

\* readInstalledCerts: nil entries skipped, one certificate per signature
RECURSIVE DedupBySignature(_, _)
DedupBySignature(cs, res) ==
  IF cs = <<>> THEN res
  ELSE LET c == Head(cs)
           add == c # Nil /\ \A i \in 1..Len(res) : Cert(c).sig # Cert(res[i]).sig
       IN DedupBySignature(Tail(cs), IF add THEN Append(res, c) ELSE res)

readInstalledCerts(dump) == DedupBySignature(dump, <<>>)

\* trustItems.contains
contains(items, c) ==
  IF c = Nil THEN TRUE
  ELSE \E i \in 1..Len(items) : GetHexSHA1Fingerprint(c) = items[i].sha1Fingerprint

\* the loop of List over the installed certificates
RECURSIVE KeepTrusted(_, _)
KeepTrusted(installed, items) ==
  IF installed = <<>> THEN <<>>
  ELSE (IF Head(installed) # Nil /\ contains(items, Head(installed))
          THEN <<Head(installed)>> ELSE <<>>)
       \o KeepTrusted(Tail(installed), items)

Returned(status, err, certs, tmp, created) ==
  [status |-> status, err |-> err, certs |-> certs, tmp |-> tmp, created |-> created]

\* getCertsWithTrustPolicy, as List sees it: `defer os.Remove(fd.Name())`
\* comes before the error check, so a nil fd panics.
getCertsWithTrustPolicy(pol, tmp, fault) ==
  LET e == trustSettingsExport(pol, tmp, fault)
  IN IF e.fd = 0 THEN Returned("panic", "nil fd", <<>>, e.tmp, e.created)
     ELSE IF fault = "parse"
       THEN Returned("err", "parse", <<>>, e.tmp \ {e.fd}, e.created)
     ELSE LET c == convertToTrustItems(parsePlist(e.file))
          IN IF c.panic
               THEN Returned("panic", "nil dict", <<>>, e.tmp \ {e.fd}, e.created)
             ELSE Returned("ok", "", c.items, e.tmp \ {e.fd}, e.created)

\* darwinStore.List
ListProc(dump, pol, tmp, fault) ==
  IF fault = "dump" THEN Returned("err", "dump", <<>>, tmp, {})
  ELSE LET t == getCertsWithTrustPolicy(pol, tmp, fault)
       IN IF t.status # "ok" THEN t
          ELSE [t EXCEPT !.certs = KeepTrusted(readInstalledCerts(dump), t.certs)]

\* getLatestBackupFile, its error dropped
getLatestBackupFile(dir, files, fault) ==
  IF fault = "readdir" \/ ~dir \/ files = {} THEN EmptyPath
  ELSE BackupPath(LastSorted(BackupNames(files)))

\* the content the import tool reads at `path`
FileAt(path, files, tmpFile) ==
  IF path.kind = "backup" THEN BackupFile(files, path.n) ELSE tmpFile

\* Restore without the file.Exists check
RestoreSkipsExists(where, pol, dir, files, tmp, tmpFile, fault) ==
  LET path == IF where = EmptyPath THEN getLatestBackupFile(dir, files, fault) ELSE where
  IN IF path = EmptyPath
       THEN [err |-> "NoBackupFound", where |-> path, imported |-> FALSE, pol |-> pol]
     ELSE IF fault = "import"
       THEN [err |-> "import", where |-> path, imported |-> TRUE, pol |-> pol]
     ELSE [err |-> "", where |-> path, imported |-> TRUE,
           pol |-> IF Exists(path, dir, files, tmp)
                     THEN TrustSettingsImport(FileAt(path, files, tmpFile)) ELSE <<>>]

\* darwinStore.Restore: [err, where, imported, pol]
RestoreProc(where, pol, dir, files, tmp, tmpFile, fault) ==
  LET path == IF where = EmptyPath THEN getLatestBackupFile(dir, files, fault) ELSE where
  IN IF path = EmptyPath
       THEN [err |-> "NoBackupFound", where |-> path, imported |-> FALSE, pol |-> pol]
     ELSE IF ~Exists(path, dir, files, tmp)
       THEN [err |-> "RestoreFileMissing", where |-> path, imported |-> FALSE, pol |-> pol]
     ELSE IF fault = "import"
       THEN [err |-> "import", where |-> path, imported |-> TRUE, pol |-> pol]
     ELSE [err |-> "", where |-> path, imported |-> TRUE,
           pol |-> TrustSettingsImport(FileAt(path, files, tmpFile))]

\* the certificates of `certs` the whitelist matches, in order
RECURSIVE Whitelisted(_, _)
Whitelisted(certs, wl) ==
  IF certs = <<>> THEN <<>>
  ELSE (IF WhitelistMatches(wl, Head(certs)) THEN <<Head(certs)>> ELSE <<>>)
       \o Whitelisted(Tail(certs), wl)

\* the trust items Remove builds from the kept certificates
RemoveItems(kept, clock, zn) ==
  LET live == SelectSeq(kept, LAMBDA c : c # Nil)
  IN [i \in 1..Len(live) |-> trustItemFromCertificate(live[i], clock, zn)]

\* darwinStore.Remove, given what its call of List returned (l):
\* [status, err, listedOk, listed, items, imported, pol, tmp, created]
RemoveProc(wl, l, pol, dir, files, clock, zn, fault) ==
  LET out(status, err, items, imported, p, t, created) ==
        [status |-> status, err |-> err, listedOk |-> l.status = "ok",
         listed |-> l.certs, items |-> items,
         imported |-> imported, pol |-> p, tmp |-> t, created |-> created]
  IN IF l.status # "ok" THEN out(l.status, l.err, <<>>, FALSE, pol, l.tmp, l.created)
     ELSE LET items == RemoveItems(Whitelisted(l.certs, wl), clock, zn)
              f == Fresh(l.tmp)
              made == l.created \cup {f}
          IN IF fault = "tempfile2"
               THEN out("panic", "nil fd", items, FALSE, pol, l.tmp, l.created)
             ELSE IF fault = "write"
               THEN out("err", "write", items, FALSE, pol, l.tmp, made)
             ELSE LET r == RestoreProc(TempPath(f), pol, dir, files, l.tmp \cup {f},
                                       toXmlFile(items), fault)
                  IN out(IF r.err = "" THEN "ok" ELSE "err", r.err, items,
                         r.imported, r.pol, l.tmp, made)

\* darwinStore.Backup: [err, dir, files, tmp, created]
BackupProc(pol, dir, files, tmp, clock, fault) ==
  LET e == trustSettingsExport(pol, tmp, fault)
      left == IF e.fd # 0 THEN e.tmp \ {e.fd} ELSE e.tmp
      out(err, d, fs) ==
        [err |-> err, dir |-> d, files |-> fs, tmp |-> left, created |-> e.created]
  IN IF e.failed THEN out(fault, dir, files)
     ELSE IF fault = "user" THEN out("user", dir, files)
     ELSE IF fault = "mkdir" THEN out("mkdir", dir, files)
     ELSE IF fault = "copy" THEN out("copy", TRUE, files)
     ELSE out("", TRUE, CopyFile(files, clock, e.file))

\* --------------------------------------------------------------- the store
ListFaults == {"none", "dump", "tempfile", "export", "parse"}
BackupFaults == {"none", "tempfile", "export", "user", "mkdir", "copy"}
RemoveFaults == ListFaults \cup {"tempfile2", "write", "import"}
RestoreFaults == {"none", "readdir", "import"}

\* the settings the tool holds when it trusts exactly the certificates `ids`
PolicyOf(ids) ==
  LET pick(id) == IF id \in ids THEN <<PolicyRecord(id, 0)>> ELSE <<>>
  IN pick("c1") \o pick("c2") \o pick("c3")

LibIdle == input = <<>> /\ output = <<>>

\* Two machines, each a keychain dump and a local zone: one dump repeats a
\* certificate, holds an unreadable entry and two certificates with one
\* signature (c1 and c3), in a zone ahead of UTC; the other is plain, in UTC.
Machines ==
  {[keychain |-> <<"c1", Nil, "c2", "c1", "c3">>, zone |-> 2],
   [keychain |-> <<"c3", "c2">>, zone |-> 0]}

\* every certificate trusted; c1 not trusted; nothing trusted
InitialPolicies == {PolicyOf(CertIds), PolicyOf({"c2", "c3"}), PolicyOf({})}

\* the whitelists handed to Remove: empty, matching nothing, matching c1 and
\* c3, matching c1 twice and c2
RemoveWhitelists ==
  {<<>>,
   <<[kind |-> "IssuerCommonName", v |-> "r9"]>>,
   <<[kind |-> "Signature", v |-> "s1"]>>,
   <<[kind |-> "Signature", v |-> "s1"], [kind |-> "IssuerCommonName", v |-> "r1"],
     [kind |-> "IssuerCommonName", v |-> "r2"]>>}

\* The machine before the first operation of a behaviour, one second after
\* StartClock: the backup directory is absent, or holds one backup taken in
\* the second StartClock, when every certificate was trusted.
Init ==
  /\ \E m \in Machines : keychain = m.keychain /\ zone = m.zone
  /\ policy \in InitialPolicies
  /\ \/ dirExists = FALSE /\ backups = {}
     \/ dirExists = TRUE
        /\ backups = {[ts |-> StartClock, file |-> TrustSettingsExport(PolicyOf(CertIds))]}
  /\ temps = {}
  /\ now = StartClock + 1
  /\ steps = 0
  /\ last = NoOp
  /\ scen = NoScen
  /\ LibIdle

\* what List() returns in the current state when nothing external fails
ListNow == ListProc(keychain, policy, temps, "none")

List ==
  /\ steps < MaxSteps
  /\ \E fault \in ListFaults :
       \E r \in {ListProc(keychain, policy, temps, fault)} :
          /\ temps' = r.tmp
          /\ last' = [op |-> "List", status |-> r.status,
                      err |-> r.err, certs |-> r.certs, created |-> r.created]
  /\ steps' = steps + 1
  /\ scen' = IF scen.phase \in {1, 2} THEN scen ELSE NoScen
  /\ UNCHANGED <<keychain, zone, policy, dirExists, backups, now, input, output>>

Backup ==
  /\ steps < MaxSteps
  /\ \E fault \in BackupFaults :
       \E r \in {BackupProc(policy, dirExists, backups, temps, now, fault)} :
       \E before \in {IF r.err = "" THEN ListNow ELSE Returned("err", "", <<>>, {}, {})} :
          /\ dirExists' = r.dir
          /\ backups' = r.files
          /\ temps' = r.tmp
          /\ last' = [op |-> "Backup",
                      status |-> IF r.err = "" THEN "ok" ELSE "err",
                      err |-> r.err, created |-> r.created, ts |-> now]
          /\ scen' = IF r.err = "" /\ before.status = "ok"
                       THEN [phase |-> 1, file |-> BackupPath(now),
                             listed |-> Range(before.certs)]
                     ELSE NoScen
  /\ steps' = steps + 1
  /\ UNCHANGED <<keychain, zone, policy, now, input, output>>

Remove ==
  /\ steps < MaxSteps
  /\ \E listed \in {ListNow} :
     \E wl \in RemoveWhitelists, fault \in RemoveFaults :
       \* a call that fails while listing never looks at its whitelist
       /\ fault \in ListFaults \ {"none"} => wl = <<>>
       /\ \E l \in {IF fault \in ListFaults \ {"none"}
                    THEN ListProc(keychain, policy, temps, fault) ELSE listed} :
          \E r \in {RemoveProc(wl, l, policy, dirExists, backups, now, zone, fault)} :
             /\ policy' = r.pol
             /\ temps' = r.tmp
             /\ last' = [op |-> "Remove", status |-> r.status,
                         err |-> r.err, created |-> r.created,
                         wl |-> IF r.listedOk THEN wl ELSE <<>>,
                         listed |-> r.listed, items |-> r.items,
                         imported |-> r.imported]
             /\ scen' = IF scen.phase = 1 /\ r.status = "ok"
                          THEN [scen EXCEPT !.phase = 2] ELSE NoScen
  /\ steps' = steps + 1
  /\ UNCHANGED <<keychain, zone, dirExists, backups, now, input, output>>

Restore ==
  /\ steps < MaxSteps
  /\ \E where \in {EmptyPath, OtherPath} \cup {BackupPath(ts) : ts \in Clocks},
        fault \in RestoreFaults :
       \E r \in {RestoreProc(where, policy, dirExists, backups, temps, <<>>, fault)} :
          /\ policy' = r.pol
          /\ last' = [op |-> "Restore",
                      status |-> IF r.err = "" THEN "ok" ELSE "err",
                      err |-> r.err, created |-> {}, arg |-> where,
                      where |-> r.where, imported |-> r.imported]
          /\ scen' = IF scen.phase = 2 /\ where = EmptyPath /\ r.err = ""
                       THEN [scen EXCEPT !.phase = 3] ELSE NoScen
  /\ steps' = steps + 1
  /\ UNCHANGED <<keychain, zone, dirExists, backups, temps, now, input, output>>

\* a second passes
Tick ==
  /\ now < StartClock + 1 + MaxTicks
  /\ now' = now + 1
  /\ UNCHANGED <<keychain, zone, policy, dirExists, backups, temps, steps, last,
                 scen, input, output>>

Next == List \/ Backup \/ Remove \/ Restore \/ Tick

Spec == Init /\ [][Next]_vars

\* ------------------------------------------------------------ Keep, called
KeepInit ==
  /\ StoreIdle
  /\ input \in [incoming : SeqsUpTo(CertIds \cup {Nil}, MaxIncoming),
                whitelisted : SeqsUpTo(WhitelistItems, MaxWhitelist)]
  /\ output = [done |-> FALSE, certs |-> <<>>]

KeepCall ==
  /\ ~output.done
  /\ output' = [done |-> TRUE, certs |-> Keep(input.incoming, input.whitelisted)]
  /\ UNCHANGED <<storeVars, input>>

SpecKeep == KeepInit /\ [][KeepCall]_vars

\* ------------------------------------------------------ Keep, called twice
\* Keep applied to its own result with the same whitelist
KeepTwiceInit ==
  /\ StoreIdle
  /\ input \in [incoming : SeqsUpTo(CertIds \cup {Nil}, MaxIncoming),
                whitelisted : SeqsUpTo(WhitelistItems, MaxWhitelist)]
  /\ output = [calls |-> 0, once |-> <<>>, twice |-> <<>>]

KeepOnce ==
  /\ output.calls = 0
  /\ output' = [output EXCEPT !.calls = 1,
                              !.once = Keep(input.incoming, input.whitelisted)]
  /\ UNCHANGED <<storeVars, input>>

KeepTwice ==
  /\ output.calls = 1
  /\ output' = [output EXCEPT !.calls = 2,
                              !.twice = Keep(output.once, input.whitelisted)]
  /\ UNCHANGED <<storeVars, input>>

KeepTwiceNext == KeepOnce \/ KeepTwice

SpecKeepTwice == KeepTwiceInit /\ [][KeepTwiceNext]_vars

\* ----------------------------------------------------------- codec, called
\* a record as List reads it from the tool's export
ParsedItem(id, date) ==
  convertToTrustItems(parsePlist(TrustSettingsExport(<<PolicyRecord(id, date)>>))).items[1]

SnapshotItems ==
  {trustItemFromCertificate(id, t, z) : id \in CertIds, t \in Clocks, z \in ZoneOffsets}
  \cup {ParsedItem(id, StartClock) : id \in CertIds}

CodecInit ==
  /\ StoreIdle
  /\ input \in SeqsUpTo(SnapshotItems, MaxRecords)
  /\ output = [stage |-> "none", file |-> <<>>, res |-> [panic |-> FALSE, items |-> <<>>]]

SerializeSnapshot ==
  /\ output.stage = "none"
  /\ output' = [output EXCEPT !.stage = "written", !.file = toXmlFile(input)]
  /\ UNCHANGED <<storeVars, input>>

ParseSnapshot ==
  /\ output.stage = "written"
  /\ output' = [output EXCEPT !.stage = "parsed",
                              !.res = convertToTrustItems(parsePlist(output.file))]
  /\ UNCHANGED <<storeVars, input>>

CodecNext == SerializeSnapshot \/ ParseSnapshot

SpecCodec == CodecInit /\ [][CodecNext]_vars

\* ------------------------------------------------------- documents, parsed
\* The documents handed to the parser: an export of up to MaxParsed records,
\* whole, or with one dict level taken out, or cut off before its end.
DocShapes == {"whole", "noOuterDict", "noTrustList", "noRecordDicts", "cutOff"}

ParsedPolicies ==
  SeqsUpTo({PolicyRecord(id, d) : id \in CertIds, d \in {0, StartClock}}, MaxParsed)

\* the children of `kids` that are not <dict> elements
WithoutDicts(kids) == SelectSeq(kids, LAMBDA k : k.tag # "dict")

Document(pol, shape) ==
  LET whole == TrustSettingsExport(pol)
      outer == whole[1]
      list == outer.kids[2]
  IN CASE shape = "noOuterDict" -> <<>>
       [] shape = "noTrustList" -> <<[outer EXCEPT !.kids = WithoutDicts(@)]>>
       [] shape = "noRecordDicts" ->
            <<[outer EXCEPT !.kids[2] = [list EXCEPT !.kids = WithoutDicts(@)]]>>
       [] shape = "cutOff" -> whole \o <<Leaf("eof", <<>>)>>
       [] OTHER -> whole

\* xml.Decoder.Decode returns a syntax error when the input ends, or breaks,
\* inside the document
RECURSIVE WellFormed(_)
WellFormed(kids) ==
  \A i \in 1..Len(kids) : kids[i].tag # "eof" /\ WellFormed(kids[i].kids)

\* the parse of getCertsWithTrustPolicy: parsePlist, its error returned, then
\* convertToTrustItems: [status, err, items]
ParseTrustSettings(file) ==
  IF ~WellFormed(file) THEN [status |-> "err", err |-> "parse", items |-> <<>>]
  ELSE LET c == convertToTrustItems(parsePlist(file))
       IN IF c.panic THEN [status |-> "panic", err |-> "nil dict", items |-> <<>>]
          ELSE [status |-> "ok", err |-> "", items |-> c.items]

ParseInit ==
  /\ StoreIdle
  /\ input \in [pol : ParsedPolicies, shape : DocShapes]
  /\ output = [stage |-> "none", status |-> "", err |-> "", items |-> <<>>]

ParseDocument ==
  /\ output.stage = "none"
  /\ \E r \in {ParseTrustSettings(Document(input.pol, input.shape))} :
       output' = [stage |-> "parsed", status |-> r.status, err |-> r.err,
                  items |-> r.items]
  /\ UNCHANGED <<storeVars, input>>

SpecParse == ParseInit /\ [][ParseDocument]_vars

\* --------------------------------------------------------------- fetcher
\* The fetcher's main routine and the goroutine it starts per CA name. Its
\* state is kept in `output`: main's position, the WaitGroup counter wg, the
\* mutex m (0: free, i: held by goroutine i), the accumulators, and per
\* goroutine its position pc, what its source returned (ret) and the slice
\* value an append has read (tmp). `input` holds the flags and arguments.
CANames == {"apple", " NSS", "bogus"}

\* strings.TrimSpace(strings.ToLower(who)) and the switch: the source called,
\* "" when no case matches
Source(who) ==
  CASE who = "apple" -> "apple" [] who = " NSS" -> "nss" [] OTHER -> ""

\* what a source may return: certificates, and an error or none
SourceCerts == {<<>>, <<"c1">>, <<"c2", "c3">>}
NoResult == [cs |-> <<>>, err |-> FALSE]

\* m.Lock() returns once the mutex is free
LockNeverBlocks(m) == TRUE

CanLock(m) == m = 0

\* wg.Wait() returns once the counter is zero
WaitPasses(wg) == wg = 0

FetcherInit ==
  /\ StoreIdle
  /\ input \in [cas : SeqsUpTo(CANames, MaxCAs), print : BOOLEAN, version : BOOLEAN]
  /\ output = [main |-> "start", spawned |-> 0, wg |-> 0, m |-> 0,
               whitelisted |-> <<>>, errors |-> <<>>,
               pc |-> [i \in 1..Len(input.cas) |-> "idle"],
               ret |-> [i \in 1..Len(input.cas) |-> NoResult],
               tmp |-> [i \in 1..Len(input.cas) |-> <<>>],
               exit |-> 0]

Goroutines == 1..Len(input.cas)

\* main up to wg.Add(len(cas)); with -version it returns at once
MainStart ==
  /\ output.main = "start"
  /\ output' = IF input.version THEN [output EXCEPT !.main = "returned"]
               ELSE [output EXCEPT !.main = "loop", !.wg = Len(input.cas)]
  /\ UNCHANGED <<storeVars, input>>

\* one turn of the loop: go func(who string) {...}(cas[i])
Spawn ==
  /\ output.main = "loop"
  /\ output.spawned < Len(input.cas)
  /\ output' = [output EXCEPT !.spawned = @ + 1, !.pc[output.spawned + 1] = "switch"]
  /\ UNCHANGED <<storeVars, input>>

\* the switch and the call of the source; add() begins when a case matched
CallSource(i) ==
  /\ output.pc[i] = "switch"
  /\ IF Source(input.cas[i]) = ""
       THEN output' = [output EXCEPT !.pc[i] = "done"]
     ELSE \E cs \in SourceCerts, err \in BOOLEAN :
            output' = [output EXCEPT !.pc[i] = "lock",
                                     !.ret[i] = [cs |-> cs, err |-> err]]
  /\ UNCHANGED <<storeVars, input>>

Lock(i) ==
  /\ output.pc[i] = "lock"
  /\ CanLock(output.m)
  /\ output' = [output EXCEPT !.m = i, !.pc[i] = "readCerts"]
  /\ UNCHANGED <<storeVars, input>>

\* whitelisted = append(whitelisted, cs...): the read, then the write
ReadCerts(i) ==
  /\ output.pc[i] = "readCerts"
  /\ output' = [output EXCEPT !.tmp[i] = output.whitelisted, !.pc[i] = "writeCerts"]
  /\ UNCHANGED <<storeVars, input>>

WriteCerts(i) ==
  /\ output.pc[i] = "writeCerts"
  /\ output' = [output EXCEPT !.whitelisted = output.tmp[i] \o output.ret[i].cs,
                              !.tmp[i] = <<>>,
                              !.pc[i] = IF output.ret[i].err THEN "readErrs" ELSE "unlock"]
  /\ UNCHANGED <<storeVars, input>>

\* errors = append(errors, err): the read, then the write
ReadErrs(i) ==
  /\ output.pc[i] = "readErrs"
  /\ output' = [output EXCEPT !.tmp[i] = output.errors, !.pc[i] = "writeErrs"]
  /\ UNCHANGED <<storeVars, input>>

WriteErrs(i) ==
  /\ output.pc[i] = "writeErrs"
  /\ output' = [output EXCEPT !.errors = Append(output.tmp[i], i),
                              !.tmp[i] = <<>>, !.pc[i] = "unlock"]
  /\ UNCHANGED <<storeVars, input>>

Unlock(i) ==
  /\ output.pc[i] = "unlock"
  /\ output' = [output EXCEPT !.m = 0, !.pc[i] = "done"]
  /\ UNCHANGED <<storeVars, input>>

\* the deferred wg.Done()
Done(i) ==
  /\ output.pc[i] = "done"
  /\ output' = [output EXCEPT !.wg = @ - 1, !.pc[i] = "finished"]
  /\ UNCHANGED <<storeVars, input>>

\* wg.Wait(), after the loop
Wait ==
  /\ output.main = "loop"
  /\ output.spawned = Len(input.cas)
  /\ WaitPasses(output.wg)
  /\ output' = [output EXCEPT !.main = "report"]
  /\ UNCHANGED <<storeVars, input>>

\* the exit code, and os.Exit(exit)
Exit ==
  /\ output.main = "report"
  /\ output' = [output EXCEPT
       !.main = "exited",
       !.exit = IF output.errors # <<>> \/ (input.print /\ output.whitelisted = <<>>)
                  THEN 1 ELSE 0]
  /\ UNCHANGED <<storeVars, input>>

FetcherNext ==
  \/ MainStart
  \/ Spawn
  \/ \E i \in Goroutines :
       \/ CallSource(i) \/ Lock(i)
       \/ ReadCerts(i) \/ WriteCerts(i)
       \/ ReadErrs(i) \/ WriteErrs(i)
       \/ Unlock(i) \/ Done(i)
  \/ Wait
  \/ Exit

SpecFetcher == FetcherInit /\ [][FetcherNext]_vars

\* ------------------------------------------------------------------ claims
\* C4: no certificate appears twice in Keep's output, even when two or more
\* whitelist items match the same certificate.
KeepOutputHasNoDuplicates ==
  (output.done /\ NoDup(input.incoming) /\ NoDup(input.whitelisted))
    => NoDup(output.certs)

\* C5: as a set, Keep(installed, whitelist) is the non-nil certificates of
\* installed that at least one whitelist item matches; nil is never returned,
\* and an empty whitelist keeps nothing.
KeepMembership ==
  output.done =>
    /\ Range(output.certs) =
         {c \in Range(input.incoming) :
            c # Nil /\ \E w \in Range(input.whitelisted) : ItemMatches(w, c)}
    /\ Nil \notin Range(output.certs)
    /\ (input.whitelisted = <<>> => output.certs = <<>>)

\* C5 witness: a call with a nil entry, a kept and a dropped certificate
KeepMembershipWitness ==
  /\ output.done
  /\ Nil \in Range(input.incoming)
  /\ output.certs # <<>>
  /\ Len(input.whitelisted) = 2
  /\ \E c \in Range(input.incoming) : c # Nil /\ c \notin Range(output.certs)

\* C6: parsing what the serializer wrote yields the same number of records, in
\* order, with the same lowercase fingerprints, issuer names, serial bytes and
\* modification instants to the second.
RoundTrip ==
  (output.stage = "parsed" /\ input # <<>>) =>
    /\ ~output.res.panic
    /\ Len(output.res.items) = Len(input)
    /\ \A i \in 1..Len(input) :
         LET a == input[i]  b == output.res.items[i]
         IN /\ b.sha1Fingerprint = a.sha1Fingerprint
            /\ b.issuerName = a.issuerName
            /\ b.serialNumber = a.serialNumber
            /\ b.modDate.sec = a.modDate.sec

\* the elements of s at the indices I, in order
RECURSIVE Pick(_, _)
Pick(s, I) ==
  IF I = {} THEN <<>>
  ELSE LET i == CHOOSE x \in I : \A y \in I : x <= y
       IN <<s[i]>> \o Pick(s, I \ {i})

\* the digests of the trust settings, as the codec reads them
TrustedDigests == {ToLower(policy[i].key) : i \in 1..Len(policy)}

\* entry i of the dump is a certificate and the first with its signature
FirstOfSignature(i) ==
  /\ keychain[i] # Nil
  /\ \A j \in 1..(i - 1) :
       keychain[j] # Nil => Cert(keychain[j]).sig # Cert(keychain[i]).sig

TrustedEntries ==
  {i \in 1..Len(keychain) :
     FirstOfSignature(i) /\ Cert(keychain[i]).fp \in TrustedDigests}

NilEntries == {i \in 1..Len(keychain) : keychain[i] = Nil}

ListReturned == last.op = "List" /\ last.status = "ok"

\* C3, as claimed: List() returns exactly the installed certificates, one per
\* signature, whose SHA-1 digest is in the exported trust settings, and keeps
\* every nil entry of the dump as if it were trusted.
ListKeepsNilEntries ==
  ListReturned => last.certs = Pick(keychain, TrustedEntries \cup NilEntries)

\* C3, amended: List() returns exactly the installed certificates, the first of
\* each signature, whose SHA-1 digest is in the exported trust settings, in
\* the dump's order; a certificate without a trust record is left out, and so
\* are the nil entries of the dump.
ListReturnsTrustedInstalled ==
  ListReturned => last.certs = Pick(keychain, TrustedEntries)

\* C3 witness: List returned c2, left the untrusted c1 out, and the dump held
\* a nil entry
ListWitness ==
  /\ ListReturned
  /\ Nil \in Range(keychain)
  /\ "c2" \in Range(last.certs)
  /\ "c1" \notin Range(last.certs)

\* C1: after Backup(); Remove(wl); Restore(""), Restore has resolved to the
\* file that Backup wrote and List() returns the certificates it returned
\* before the Backup.
BackupRemoveRestore ==
  scen.phase = 3 =>
    /\ last.where = scen.file
    /\ ListNow.status = "ok"
    /\ Range(ListNow.certs) = scen.listed

\* C2: after a successful Remove(wl) the imported snapshot holds one record
\* per listed certificate that wl matches, no two with one digest, and List()
\* returns exactly those certificates.
RemovePostcondition ==
  (last.op = "Remove" /\ last.status = "ok") =>
    LET matched == {c \in Range(last.listed) : WhitelistMatches(last.wl, c)}
    IN /\ {last.items[i].sha1Fingerprint : i \in 1..Len(last.items)}
            = {Cert(c).fp : c \in matched}
       /\ Len(last.items) = Cardinality(matched)
       /\ ListNow.status = "ok"
       /\ Range(ListNow.certs) = matched

\* C7: Restore("") imports the backup file with the greatest timestamp.
RestorePicksNewestBackup ==
  (last.op = "Restore" /\ last.arg = EmptyPath /\ last.imported) =>
    last.where = BackupPath(CHOOSE t \in BackupNames(backups) :
                              \A o \in BackupNames(backups) : o <= t)

RestoreStep == last'.op = "Restore" /\ steps' = steps + 1

\* C8: Restore("") without a backup directory, or with an empty one, returns
\* NoBackupFound; Restore of a path that does not exist returns
\* RestoreFileMissing; in both cases the import tool is not run and the trust
\* settings stay as they were.
RestoreErrorOutcomes ==
  [][RestoreStep =>
       /\ (last'.arg = EmptyPath /\ (~dirExists \/ backups = {}))
            => last'.err = "NoBackupFound"
       /\ (last'.where # EmptyPath /\ ~Exists(last'.where, dirExists, backups, temps))
            => last'.err = "RestoreFileMissing"
       /\ last'.err \in {"NoBackupFound", "RestoreFileMissing"}
            => (~last'.imported /\ policy' = policy)]_vars

\* C8 witness: Restore of a missing path failed while settings were in place
RestoreErrorWitness ==
  /\ last.op = "Restore"
  /\ last.err = "RestoreFileMissing"
  /\ policy # <<>>

\* C9: every successful Backup() adds exactly one file to the backup
\* directory, and no operation changes or replaces a file already there.
BackupsAppendOnly ==
  [][/\ \A b \in backups : b \in backups'
     /\ (last'.op = "Backup" /\ last'.status = "ok" /\ steps' = steps + 1)
          => Cardinality(backups') = Cardinality(backups) + 1]_vars

\* C10: when Backup, List or Remove returns, no temporary file it created is
\* left in the temporary directory.
TempFilesRemoved ==
  last.op \in {"List", "Backup", "Remove"} => last.created \cap temps = {}

\* a dict level of the document is missing
LacksDictLevel == input.shape \in {"noOuterDict", "noTrustList", "noRecordDicts"}

\* C11: parsing a document that lacks the outer dict, or one of the nested
\* dict levels, ends with an error returned to the caller: no snapshot, no
\* crash.
MalformedDocumentIsError ==
  (output.stage = "parsed" /\ LacksDictLevel) => output.status = "err"

\* C12: Keep(Keep(certs, wl), wl) and Keep(certs, wl) hold the same set of
\* certificates, order and multiplicity ignored.
KeepIdempotent ==
  output.calls = 2 => Range(output.twice) = Range(output.once)

\* C12 witness: the first call dropped a certificate and kept another twice,
\* and the second call returned it more often still
KeepIdempotentWitness ==
  /\ output.calls = 2
  /\ \E c \in Range(input.incoming) : c # Nil /\ c \notin Range(output.once)
  /\ ~NoDup(output.once)
  /\ Len(output.twice) > Len(output.once)

\* C13: when the export tool fails or a temporary file cannot be created,
\* List, Backup and Remove return the error instead of crashing on a nil file
\* handle, and a Remove that fails this way does not run the import tool and
\* leaves the trust settings as they were.
FailuresSurfaced ==
  [][(steps' = steps + 1 /\ last'.op \in {"List", "Backup", "Remove"}) =>
       /\ ~(last'.status = "panic" /\ last'.err = "nil fd")
       /\ (last'.op = "Remove" /\ last'.err \in {"nil fd", "tempfile", "export"})
            => (~last'.imported /\ policy' = policy)]_vars

\* the number of entries of s equal to x
Count(s, x) == Cardinality({k \in 1..Len(s) : s[k] = x})

\* how often the sources returned x, over the goroutines 1..n
RECURSIVE ReturnedCount(_, _)
ReturnedCount(n, x) ==
  IF n = 0 THEN 0 ELSE ReturnedCount(n - 1, x) + Count(output.ret[n].cs, x)

PastWait == output.main \in {"report", "exited"}

\* C14: main passes wg.Wait() only after every goroutine has finished; the
\* accumulators then hold every certificate and every error the sources
\* returned; and the exit code is 1 exactly when some source returned an error
\* or, with printing on, no certificate was collected.
FetcherFanOut ==
  /\ PastWait =>
       /\ \A i \in Goroutines : output.pc[i] = "finished"
       /\ \A c \in CertIds :
            Count(output.whitelisted, c) = ReturnedCount(Len(input.cas), c)
       /\ Range(output.errors) = {i \in Goroutines : output.ret[i].err}
       /\ NoDup(output.errors)
  /\ output.main = "exited" =>
       (output.exit = 1 <=>
          \/ \E i \in Goroutines : output.ret[i].err
          \/ input.print /\ \A i \in Goroutines : output.ret[i].cs = <<>>)
  /\ output.exit \in {0, 1}

\* C14 witness: the fetcher exited after two goroutines of one name; both
\* calls of the source returned certificates, the first an error too
FetcherFanOutWitness ==
  /\ output.main = "exited"
  /\ input.cas = <<"apple", "apple">>
  /\ output.ret[1].cs # <<>> /\ output.ret[2].cs # <<>>
  /\ output.ret[1].err /\ ~output.ret[2].err
  /\ Len(output.whitelisted) >= 2
  /\ output.exit = 1

====
